---- MODULE Spec2Model ----
(***************************************************************************)
(* The sales analytics scripts of scripts/python: clean_data.py writes the *)
(* cleaned CSV, data_analysis.py loads it and computes KPIs, grouped       *)
(* rollups and time series, visualizations.py computes the daily series    *)
(* with its 7-day moving average.                                          *)
(*                                                                         *)
(* Money is held in integer cents.  The input amounts are whole dollars,   *)
(* so a sum is exact and round(2) of a sum leaves it unchanged; means and  *)
(* percentages are rounded half-to-even to two decimals as numpy does.     *)
(* A percentage is held in hundredths of a percent (50.0 % is 5000).       *)
(* A date is <<year, month, day>>.  An empty CSV cell (NaN) is recorded in *)
(* the row's field na, the set of columns that hold no value.              *)
(***************************************************************************)
EXTENDS Integers, Sequences, FiniteSets, TLC

\* ------------------------------------------------------------------ bounds

\* Most rows of one raw CSV file of the enumerated families.
MaxRows == 3

\* Most distinct dates of the daily series of the visualization script.
MaxDates == 8

\* ----------------------------------------------------------------- strings

\* Every string the model sorts, in Python's (code point) string order.
Lexicon ==
  << "A", "Ann", "April", "August", "B", "Bob", "Books", "C", "December",
     "February", "Friday", "January", "July", "June", "March", "May",
     "Monday", "November", "October",
     "R01", "R02", "R03", "R04", "R05", "R06", "R07", "R08", "R09", "R10",
     "R11", "R12", "R13", "R14", "R15", "R16", "R17", "R18", "R19", "R20",
     "R21", "R22", "R23", "R24", "R25", "R26", "R27", "R28", "R29", "R30",
     "R31",
     "Saturday", "September", "Sunday", "Thursday", "Toys", "Tuesday",
     "Wednesday", "a", "b", "books", "toys" >>

Rank(s) == CHOOSE i \in 1..Len(Lexicon) : Lexicon[i] = s

StrLess(a, b) == Rank(a) < Rank(b)

\* str.upper() and str.title() on the strings of the model.
Upper(s) ==
  CASE s = "a" -> "A"
    [] s = "b" -> "B"
    [] OTHER -> s

Title(s) ==
  CASE s = "books" -> "Books"
    [] s = "toys" -> "Toys"
    [] OTHER -> s

\* ---------------------------------------------------------------- calendar

IsLeap(y) == (y % 4 = 0 /\ y % 100 # 0) \/ y % 400 = 0

DaysInMonth(y, m) ==
  IF m = 2 THEN (IF IsLeap(y) THEN 29 ELSE 28)
  ELSE IF m \in {4, 6, 9, 11} THEN 30 ELSE 31

RECURSIVE DaysBeforeMonth(_, _)
DaysBeforeMonth(y, m) ==
  IF m = 1 THEN 0 ELSE DaysBeforeMonth(y, m - 1) + DaysInMonth(y, m - 1)

DayOfYear(d) == DaysBeforeMonth(d[1], d[2]) + d[3]

\* Days since 0001-01-01 counted from 1 (the proleptic Gregorian ordinal).
ToOrdinal(d) ==
  LET y == d[1] - 1
  IN  365 * y + (y \div 4) - (y \div 100) + (y \div 400) + DayOfYear(d)

\* 0 is Monday ... 6 is Sunday.
Weekday(d) == (ToOrdinal(d) + 6) % 7

DateLess(a, b) == ToOrdinal(a) < ToOrdinal(b)

MonthNames ==
  << "January", "February", "March", "April", "May", "June", "July",
     "August", "September", "October", "November", "December" >>

\* Series.dt.month_name()
month_name(d) == MonthNames[d[2]]

\* The fixed list of analyze_time_series.
day_order ==
  << "Monday", "Tuesday", "Wednesday", "Thursday", "Friday", "Saturday",
     "Sunday" >>

\* Series.dt.day_name()
day_name(d) == day_order[Weekday(d) + 1]

quarter(d) == ((d[2] - 1) \div 3) + 1

\* Series.dt.isocalendar().week
WeeksInIsoYear(y) ==
  LET jan1 == Weekday(<<y, 1, 1>>)
  IN  IF jan1 = 3 \/ (jan1 = 2 /\ IsLeap(y)) THEN 53 ELSE 52

iso_week(d) ==
  LET w == (DayOfYear(d) - (Weekday(d) + 1) + 10) \div 7
  IN  IF w < 1 THEN WeeksInIsoYear(d[1] - 1)
      ELSE IF w > WeeksInIsoYear(d[1]) THEN 1 ELSE w

\* -------------------------------------------------------------- arithmetic

\* n / d rounded to the nearest integer, halves to the even one (d > 0).
RoundHalfEven(n, d) ==
  LET q == n \div d
      r == n % d
  IN  IF 2 * r > d \/ (2 * r = d /\ q % 2 = 1) THEN q + 1 ELSE q

RECURSIVE SumSeq(_)
SumSeq(s) == IF s = <<>> THEN 0 ELSE Head(s) + SumSeq(Tail(s))

RECURSIVE ProdSeq(_)
ProdSeq(s) == IF s = <<>> THEN 1 ELSE Head(s) * ProdSeq(Tail(s))

Range(s) == {s[i] : i \in DOMAIN s}

Column(rows, c) == [i \in DOMAIN rows |-> rows[i][c]]

\* The strings of a set in ascending order, as groupby(sort=True) lists keys.
RECURSIVE SortStrings(_)
SortStrings(S) ==
  IF S = {} THEN <<>>
  ELSE LET m == CHOOSE x \in S : \A y \in S : Rank(x) <= Rank(y)
       IN  <<m>> \o SortStrings(S \ {m})

RECURSIVE SortDates(_)
SortDates(S) ==
  IF S = {} THEN <<>>
  ELSE LET m == CHOOSE x \in S : \A y \in S : ToOrdinal(x) <= ToOrdinal(y)
       IN  <<m>> \o SortDates(S \ {m})

\* sort_values(by, kind='quicksort'): quicksort is not stable, so rows with
\* equal sort values may come out in any order.  Every order numpy may
\* produce: the sequences that hold each row s[i], i \in idx, once, in
\* ascending order of key[i].
RECURSIVE SortOutcomes(_, _, _)
SortOutcomes(s, key, idx) ==
  IF idx = {} THEN {<<>>}
  ELSE UNION { { <<s[i]>> \o t : t \in SortOutcomes(s, key, idx \ {i}) } :
               i \in {j \in idx : \A k \in idx : key[j] <= key[k]} }

\* ------------------------------------------------------------ clean_data.py

\* The columns of data/raw/sales_data.csv.
RawColumns ==
  << "date", "sales_amount", "units_sold", "region", "product_category",
     "customer_id", "sales_rep" >>

\* The columns clean_data.py adds, in the order it adds them.
DerivedColumns == << "unit_price", "year", "month", "month_num", "quarter", "week" >>

RawRow(d, amount, units, reg, cat, cust, rep, missing) ==
  [ date |-> d, sales_amount |-> amount, units_sold |-> units, region |-> reg,
    product_category |-> cat, customer_id |-> cust, sales_rep |-> rep,
    na |-> missing ]

\* df.drop_duplicates(): the first of equal rows stays, in place.
RECURSIVE drop_duplicates(_)
drop_duplicates(rows) ==
  IF rows = <<>> THEN <<>>
  ELSE LET init == SubSeq(rows, 1, Len(rows) - 1)
           last == rows[Len(rows)]
       IN  IF last \in Range(init) THEN drop_duplicates(init)
           ELSE Append(drop_duplicates(init), last)

\* The columns whose absence removes a row.
CriticalColumns == {"date", "sales_amount", "units_sold", "region", "product_category"}

dropna(rows) == SelectSeq(rows, LAMBDA r : r.na \cap CriticalColumns = {})

\* df[(df['sales_amount'] > 0) & (df['units_sold'] > 0)]
PositiveOnly(rows) == SelectSeq(rows, LAMBDA r : r.sales_amount > 0 /\ r.units_sold > 0)

\* The derived fields and the standardized text of one row.  unit_price is
\* the exact ratio <<sales_amount, units_sold>>.
Derive(r) ==
  [ date |-> r.date, sales_amount |-> r.sales_amount, units_sold |-> r.units_sold,
    region |-> Upper(r.region), product_category |-> Title(r.product_category),
    customer_id |-> r.customer_id, sales_rep |-> r.sales_rep, na |-> r.na,
    unit_price |-> <<r.sales_amount, r.units_sold>>,
    year |-> r.date[1], month |-> month_name(r.date), month_num |-> r.date[2],
    quarter |-> quarter(r.date), week |-> iso_week(r.date) ]

\* The script as a whole: every cleaned file it may write for a raw file (the
\* final sort by date does not fix the order of rows of one date).
clean_data(raw) ==
  LET kept    == PositiveOnly(dropna(drop_duplicates(raw)))
      derived == [i \in DOMAIN kept |-> Derive(kept[i])]
      key     == [i \in DOMAIN derived |-> ToOrdinal(derived[i].date)]
  IN  { [columns |-> RawColumns \o DerivedColumns, rows |-> s] :
        s \in SortOutcomes(derived, key, DOMAIN derived) }

\* ------------------------------------------------------------ the raw files

SeqsUpTo(S, n) == UNION { [1..k -> S] : k \in 0..n }

\* The rows of a set in some order, as a file lists them.
RECURSIVE SeqOf(_)
SeqOf(S) ==
  IF S = {} THEN <<>>
  ELSE LET x == CHOOSE y \in S : TRUE IN <<x>> \o SeqOf(S \ {x})

\* The files of at most n distinct rows of S.
FilesOf(S, n) == { SeqOf(T) : T \in {U \in SUBSET S : Cardinality(U) <= n} }

NoNa == {}

TimeDates == { <<2024, 1, 3>>, <<2024, 2, 6>>, <<2024, 3, 8>>, <<2024, 4, 1>>, <<2025, 1, 6>> }

\* One customer's purchases over the months: the date and the amount vary.
TimeRows ==
  { RawRow(d, a, 1, "A", "Books", "C1", "Ann", NoNa) :
      d \in TimeDates, a \in {9000, 10000, 15000} }

TimeFiles == FilesOf(TimeRows, MaxRows)

\* One day's sales: the group and the amount vary, and a sale may lack its
\* customer id.
GroupRow(g, a, missing) ==
  RawRow(<<2024, 1, 3>>, a, IF a = 2000 THEN 2 ELSE 1, g,
         IF a = 3000 THEN "Toys" ELSE "Books",
         IF a = 1000 THEN "C1" ELSE "C2",
         IF g = "A" THEN "Ann" ELSE "Bob", missing)

GroupRows ==
  { GroupRow(g, a, missing) :
      g \in {"A", "B"}, a \in {1000, 2000, 3000}, missing \in {NoNa, {"customer_id"}} }

GroupFiles == FilesOf(GroupRows, MaxRows)

\* Rows clean_data.py removes or rewrites.
DirtyRows ==
  { RawRow(<<2024, 3, 8>>, 2000, 1, "a", "books", "C1", "Ann", NoNa),
    RawRow(<<2024, 1, 3>>, 3000, 2, "B", "Toys", "C2", "Bob", {"sales_rep"}),
    RawRow(<<2024, 2, 6>>, 1000, 1, "A", "Books", "C1", "Ann", {"region"}),
    RawRow(<<2024, 2, 6>>, 0, 1, "A", "Books", "C1", "Ann", NoNa),
    RawRow(<<2024, 2, 6>>, 1000, 0, "b", "toys", "C1", "Ann", NoNa),
    RawRow(<<2024, 2, 6>>, -1000, 1, "A", "Books", "C2", "Bob", NoNa) }

DirtyFiles == SeqsUpTo(DirtyRows, MaxRows)

\* Many groups of distinct totals: one sale per region and representative,
\* of 13, 15, 17, ... dollars, on consecutive days of January.
ManyKeys ==
  << "R01", "R02", "R03", "R04", "R05", "R06", "R07", "R08", "R09", "R10",
     "R11", "R12", "R13", "R14", "R15", "R16", "R17", "R18", "R19", "R20",
     "R21", "R22", "R23", "R24", "R25", "R26", "R27", "R28", "R29", "R30",
     "R31" >>

ManyGroupsFile ==
  [ i \in DOMAIN ManyKeys |->
      RawRow(<<2024, 1, i>>, 1300 + 200 * (i - 1), 1, ManyKeys[i], "Books", "C1",
             ManyKeys[i], NoNa) ]

RawFiles == TimeFiles \cup GroupFiles \cup DirtyFiles \cup {ManyGroupsFile}

\* Every file clean_data.py may have written to PROCESSED_DATA_PATH.
CleanedFiles == UNION { clean_data(raw) : raw \in RawFiles }

\* ---------------------------------------------------------- float results

\* A float cell that may be non-finite: <<"num", n>>, NaN, or an infinity.
Num(n) == <<"num", n>>
NaN == <<"nan", 0>>
PosInf == <<"inf", 1>>
NegInf == <<"inf", -1>>

\* The float n / d * scale rounded to an integer, as numpy divides: a zero
\* divisor gives an infinity, or NaN for 0 / 0, and raises nothing.
Ratio(n, d, scale) ==
  IF d = 0 THEN (IF n = 0 THEN NaN ELSE IF n > 0 THEN PosInf ELSE NegInf)
  ELSE IF d > 0 THEN Num(RoundHalfEven(n * scale, d))
  ELSE Num(RoundHalfEven((0 - n) * scale, 0 - d))

\* ------------------------------------------------------- groupby and agg

HasValue(r, c) == c \notin r.na

\* The group keys of df.groupby(c): the values present, ascending.
GroupKeys(rows, c) ==
  SortStrings({ rows[i][c] : i \in {j \in DOMAIN rows : HasValue(rows[j], c)} })

GroupOf(rows, c, k) == SelectSeq(rows, LAMBDA r : HasValue(r, c) /\ r[c] = k)

agg_sum(rows, c) == SumSeq(Column(rows, c))

agg_count(rows, c) == Len(SelectSeq(rows, LAMBDA r : HasValue(r, c)))

\* mean().round(2) of a money column, in cents.
agg_mean(rows, c) == RoundHalfEven(agg_sum(rows, c), Len(rows))

agg_nunique(rows, c) ==
  Cardinality({ rows[i][c] : i \in {j \in DOMAIN rows : HasValue(rows[j], c)} })

\* mean().round(2) of unit_price, in cents: the prices are the exact ratios
\* sales_amount / units_sold, brought to the common denominator.
agg_mean_unit_price(rows) ==
  LET den == ProdSeq([i \in DOMAIN rows |-> rows[i].unit_price[2]])
      num == SumSeq([i \in DOMAIN rows |->
                       rows[i].unit_price[1] * (den \div rows[i].unit_price[2])])
  IN  RoundHalfEven(num, den * Len(rows))

\* sort_values('Total Sales', ascending=False): every order it may return.
SortByTotalSales(table) ==
  SortOutcomes(table, [i \in DOMAIN table |-> 0 - table[i].TotalSales], DOMAIN table)

\* The share cut off after 2 decimals instead of rounded.
ShareOfTotal_Truncated(table, i) ==
  IF SumSeq(Column(table, "TotalSales")) = 0 THEN NaN
  ELSE Num((table[i].TotalSales * 10000) \div SumSeq(Column(table, "TotalSales")))

\* column / column.sum() * 100, rounded to 2 decimals.
ShareOfTotal(table, i) ==
  Ratio(table[i].TotalSales, SumSeq(Column(table, "TotalSales")), 10000)

\* -------------------------------------------------------- data_analysis.py

Ok(v) == [kind |-> "ok", value |-> v]
Raise(e) == [kind |-> "raise", value |-> e]

Median(rows, c) ==
  LET key    == [i \in DOMAIN rows |-> rows[i][c]]
      sorted == CHOOSE s \in SortOutcomes(key, key, DOMAIN rows) : TRUE
      n      == Len(rows)
  IN  IF n % 2 = 1 THEN sorted[(n + 1) \div 2]
      ELSE RoundHalfEven(sorted[n \div 2] + sorted[(n \div 2) + 1], 2)

\* The KPI dictionary; each value is the number its string shows (money in
\* cents, the unit mean in hundredths).  On an empty frame date.min() is NaT
\* and NaT.strftime raises ValueError.
calculate_kpis(frame) ==
  LET rows == frame.rows
  IN  IF rows = <<>> THEN Raise("ValueError")
      ELSE Ok([ TotalRevenue |-> agg_sum(rows, "sales_amount"),
                AverageTransactionValue |-> agg_mean(rows, "sales_amount"),
                MedianTransactionValue |-> Median(rows, "sales_amount"),
                TotalUnitsSold |-> agg_sum(rows, "units_sold"),
                NumberOfTransactions |-> Len(rows),
                NumberOfUniqueCustomers |-> agg_nunique(rows, "customer_id"),
                AverageUnitsPerTransaction |->
                  RoundHalfEven(agg_sum(rows, "units_sold") * 100, Len(rows)),
                DateRange |-> << SortDates(Range(Column(rows, "date")))[1],
                                 SortDates(Range(Column(rows, "date")))
                                   [Cardinality(Range(Column(rows, "date")))] >> ])

RegionGroups(frame) ==
  LET keys == GroupKeys(frame.rows, "region")
  IN  [ i \in DOMAIN keys |->
          LET g == GroupOf(frame.rows, "region", keys[i])
          IN  [ key |-> keys[i],
                TotalSales |-> agg_sum(g, "sales_amount"),
                AvgTransaction |-> agg_mean(g, "sales_amount"),
                NumTransactions |-> agg_count(g, "sales_amount"),
                TotalUnits |-> agg_sum(g, "units_sold"),
                UniqueCustomers |-> agg_nunique(g, "customer_id") ] ]

WithMarketShare(table) ==
  [ i \in DOMAIN table |->
      [ key |-> table[i].key,
        TotalSales |-> table[i].TotalSales,
        AvgTransaction |-> table[i].AvgTransaction,
        NumTransactions |-> table[i].NumTransactions,
        TotalUnits |-> table[i].TotalUnits,
        UniqueCustomers |-> table[i].UniqueCustomers,
        SharePct |-> ShareOfTotal(table, i) ] ]

\* Every table analyze_by_region may return.
analyze_by_region(frame) ==
  { Ok(t) : t \in SortByTotalSales(WithMarketShare(RegionGroups(frame))) }

CategoryGroups(frame) ==
  LET keys == GroupKeys(frame.rows, "product_category")
  IN  [ i \in DOMAIN keys |->
          LET g == GroupOf(frame.rows, "product_category", keys[i])
          IN  [ key |-> keys[i],
                TotalSales |-> agg_sum(g, "sales_amount"),
                AvgTransaction |-> agg_mean(g, "sales_amount"),
                NumTransactions |-> agg_count(g, "sales_amount"),
                TotalUnits |-> agg_sum(g, "units_sold"),
                AvgUnitPrice |-> agg_mean_unit_price(g) ] ]

WithRevenueContribution(table) ==
  [ i \in DOMAIN table |->
      [ key |-> table[i].key,
        TotalSales |-> table[i].TotalSales,
        AvgTransaction |-> table[i].AvgTransaction,
        NumTransactions |-> table[i].NumTransactions,
        TotalUnits |-> table[i].TotalUnits,
        AvgUnitPrice |-> table[i].AvgUnitPrice,
        SharePct |-> ShareOfTotal(table, i) ] ]

\* Every table analyze_by_category may return.
analyze_by_category(frame) ==
  { Ok(t) : t \in SortByTotalSales(WithRevenueContribution(CategoryGroups(frame))) }

RepGroups(frame) ==
  LET keys == GroupKeys(frame.rows, "sales_rep")
  IN  [ i \in DOMAIN keys |->
          LET g == GroupOf(frame.rows, "sales_rep", keys[i])
          IN  [ key |-> keys[i],
                TotalSales |-> agg_sum(g, "sales_amount"),
                AvgSale |-> agg_mean(g, "sales_amount"),
                NumSales |-> agg_count(g, "sales_amount"),
                UniqueCustomers |-> agg_nunique(g, "customer_id") ] ]

\* Total Sales / Unique Customers, rounded to 2 decimals, in cents.
SalesPerCustomer(total, customers) == Ratio(total, customers, 1)

WithSalesPerCustomer(table) ==
  [ i \in DOMAIN table |->
      [ key |-> table[i].key,
        TotalSales |-> table[i].TotalSales,
        AvgSale |-> table[i].AvgSale,
        NumSales |-> table[i].NumSales,
        UniqueCustomers |-> table[i].UniqueCustomers,
        SalesPerCustomer |->
          SalesPerCustomer(table[i].TotalSales, table[i].UniqueCustomers) ] ]

\* Every outcome of analyze_sales_reps: with no group, rep_analysis.index[0]
\* raises IndexError.
analyze_sales_reps(frame) ==
  { IF t = <<>> THEN Raise("IndexError") ELSE Ok(t) :
      t \in SortByTotalSales(WithSalesPerCustomer(RepGroups(frame))) }

\* Total Sales.pct_change() * 100, rounded to 2 decimals, in hundredths of a
\* percent: the change from the row before, NaN on the first row.
GrowthPct(table, i) ==
  IF i = 1 THEN NaN
  ELSE Ratio(table[i].TotalSales - table[i - 1].TotalSales,
             table[i - 1].TotalSales, 10000)

\* df.groupby('month'): one row per month name, in the order of the names.
MonthlyGroups(frame) ==
  LET keys == GroupKeys(frame.rows, "month")
  IN  [ i \in DOMAIN keys |->
          LET g == GroupOf(frame.rows, "month", keys[i])
          IN  [ key |-> keys[i],
                TotalSales |-> agg_sum(g, "sales_amount"),
                AvgTransaction |-> agg_mean(g, "sales_amount"),
                NumTransactions |-> agg_count(g, "sales_amount") ] ]

Monthly(frame) ==
  LET table == MonthlyGroups(frame)
  IN  [ i \in DOMAIN table |->
          [ key |-> table[i].key,
            TotalSales |-> table[i].TotalSales,
            AvgTransaction |-> table[i].AvgTransaction,
            NumTransactions |-> table[i].NumTransactions,
            GrowthPct |-> GrowthPct(table, i) ] ]

\* df['day_of_week'] = df['date'].dt.day_name(): the caller's frame gets the
\* column (a new last column, or the same column written again).
WithDayOfWeek(frame) ==
  [ columns |-> IF "day_of_week" \in Range(frame.columns) THEN frame.columns
                ELSE Append(frame.columns, "day_of_week"),
    rows |-> [ i \in DOMAIN frame.rows |->
                 ("day_of_week" :> day_name(frame.rows[i].date)) @@ frame.rows[i] ] ]

\* groupby('day_of_week')['sales_amount'].agg(['sum', 'mean', 'count']): the
\* mean is not rounded and is held as the exact ratio <<sum, count>>.
WeeklyGroups(frame) ==
  LET keys == GroupKeys(frame.rows, "day_of_week")
  IN  [ i \in DOMAIN keys |->
          LET g == GroupOf(frame.rows, "day_of_week", keys[i])
          IN  [ key |-> keys[i],
                TotalSales |-> agg_sum(g, "sales_amount"),
                AvgTransaction |-> <<agg_sum(g, "sales_amount"), agg_count(g, "sales_amount")>>,
                NumTransactions |-> agg_count(g, "sales_amount") ] ]

\* Reindex without the reordering: the groups stay in groupby's order.
Reindex_GroupOrder(table) == table

\* weekly.reindex([day for day in day_order if day in weekly.index])
Reindex(table) ==
  LET index == { table[i].key : i \in DOMAIN table }
      days  == SelectSeq(day_order, LAMBDA day : day \in index)
  IN  [ i \in DOMAIN days |-> table[CHOOSE j \in DOMAIN table : table[j].key = days[i]] ]

Weekly(frame) == Reindex(WeeklyGroups(WithDayOfWeek(frame)))

\* The pair analyze_time_series returns, and the frame it leaves behind.
analyze_time_series(frame) ==
  [ out |-> Ok([monthly |-> Monthly(frame), weekly |-> Weekly(frame)]),
    df  |-> WithDayOfWeek(frame) ]

numeric_cols == << "sales_amount", "units_sold", "unit_price" >>

\* A numeric column as integers on a scale of its own (a correlation does not
\* depend on the scale): sales in dollars, prices over their common divisor.
Scaled(rows, c) ==
  IF c = "sales_amount" THEN [i \in DOMAIN rows |-> rows[i].sales_amount \div 100]
  ELSE IF c = "units_sold" THEN Column(rows, c)
  ELSE LET den == ProdSeq([i \in DOMAIN rows |-> rows[i].unit_price[2]])
       IN  [ i \in DOMAIN rows |->
               (rows[i].unit_price[1] \div 100) * (den \div rows[i].unit_price[2]) ]

\* n^2 times the covariance of two columns.
Covariance(x, y) ==
  Len(x) * SumSeq([i \in DOMAIN x |-> x[i] * y[i]]) - SumSeq(x) * SumSeq(y)

Sign(n) == IF n > 0 THEN 1 ELSE IF n < 0 THEN -1 ELSE 0

\* One cell of df[numeric_cols].corr().round(3): NaN when a column has no
\* variance, 1.0 on the diagonal otherwise.  Off the diagonal the model keeps
\* the sign of the coefficient only (its value needs a square root).
CorrCell(rows, a, b) ==
  LET x == Scaled(rows, a)
      y == Scaled(rows, b)
  IN  IF Covariance(x, x) = 0 \/ Covariance(y, y) = 0 THEN NaN
      ELSE IF a = b THEN Num(1000)
      ELSE <<"sign", Sign(Covariance(x, y))>>

generate_summary_statistics(frame) ==
  Ok([ a \in Range(numeric_cols) |->
         [ b \in Range(numeric_cols) |-> CorrCell(frame.rows, a, b) ] ])

\* The four files save_analysis_results writes under OUTPUT_PATH.
save_analysis_results(kpis, region_analysis, category_analysis, rep_analysis) ==
  [ kpis_csv |-> kpis,
    regional_analysis_csv |-> region_analysis,
    category_analysis_csv |-> category_analysis,
    rep_analysis_csv |-> rep_analysis ]

\* --------------------------------------------------------------- the state

VARIABLES
  file,      \* PROCESSED_DATA_PATH: [exists, data], data the cleaned frame
  df,        \* the DataFrame the running script holds (NoFrame: None)
  pc,        \* where the script is
  results,   \* the results held so far, by variable name
  written,   \* the files written under OUTPUT_PATH, by name
  exit_code, \* the exit status the process ends with
  ret        \* the last function called directly, and its outcome

vars == <<file, df, pc, results, written, exit_code, ret>>

\* None, where a DataFrame is expected.
NoFrame == [columns |-> <<>>, rows |-> <<>>]

Nothing == <<>>

NoCall == [fn |-> "none", out |-> Ok(Nothing)]

Files == { [exists |-> TRUE, data |-> f] : f \in CleanedFiles }
           \cup { [exists |-> FALSE, data |-> NoFrame] }

\* load_sales_data(): None when the file is missing.  The CSV text is held
\* as the values read_csv and to_datetime parse from it.
load_sales_data(f) == IF ~f.exists THEN NoFrame ELSE f.data

Init ==
  /\ file \in Files
  /\ df = NoFrame
  /\ pc = "start"
  /\ results = Nothing
  /\ written = Nothing
  /\ exit_code = 0
  /\ ret = NoCall

\* ------------------------------------------------------------------ main()

\* An exception no one catches ends the process with status 1.
Uncaught == pc' = "done" /\ exit_code' = 1

Load ==
  /\ pc = "start"
  /\ df' = load_sales_data(file)
  /\ pc' = IF df' = NoFrame THEN "done" ELSE "kpis"
  /\ UNCHANGED <<file, results, written, exit_code, ret>>

Kpis ==
  /\ pc = "kpis"
  /\ LET out == calculate_kpis(df)
     IN  IF out.kind = "raise"
         THEN Uncaught /\ UNCHANGED results
         ELSE /\ results' = ("kpis" :> out.value) @@ results
              /\ pc' = "region"
              /\ UNCHANGED exit_code
  /\ UNCHANGED <<file, df, written, ret>>

Region ==
  /\ pc = "region"
  /\ \E out \in analyze_by_region(df) :
       /\ results' = ("region_analysis" :> out.value) @@ results
       /\ pc' = "category"
  /\ UNCHANGED <<file, df, written, exit_code, ret>>

Category ==
  /\ pc = "category"
  /\ \E out \in analyze_by_category(df) :
       /\ results' = ("category_analysis" :> out.value) @@ results
       /\ pc' = "time_series"
  /\ UNCHANGED <<file, df, written, exit_code, ret>>

TimeSeries ==
  /\ pc = "time_series"
  /\ LET r == analyze_time_series(df)
     IN  /\ df' = r.df
         /\ results' = ("monthly" :> r.out.value.monthly)
                         @@ ("weekly" :> r.out.value.weekly) @@ results
  /\ pc' = "reps"
  /\ UNCHANGED <<file, written, exit_code, ret>>

Reps ==
  /\ pc = "reps"
  /\ \E out \in analyze_sales_reps(df) :
       IF out.kind = "raise"
       THEN Uncaught /\ UNCHANGED results
       ELSE /\ results' = ("rep_analysis" :> out.value) @@ results
            /\ pc' = "summary"
            /\ UNCHANGED exit_code
  /\ UNCHANGED <<file, df, written, ret>>

Summary ==
  /\ pc = "summary"
  /\ results' = ("correlation" :> generate_summary_statistics(df).value) @@ results
  /\ pc' = "save"
  /\ UNCHANGED <<file, df, written, exit_code, ret>>

Save ==
  /\ pc = "save"
  /\ written' = save_analysis_results(results["kpis"], results["region_analysis"],
                                      results["category_analysis"],
                                      results["rep_analysis"])
  /\ pc' = "done"
  /\ UNCHANGED <<file, df, results, exit_code, ret>>

Next == Load \/ Kpis \/ Region \/ Category \/ TimeSeries \/ Reps \/ Summary \/ Save

Spec == Init /\ [][Next]_vars

\* ------------------------------------------- the functions called directly

\* A caller loads the frame as main() does, then calls the analysis functions
\* on it, any of them, any number of times, in any order.
CallLoad ==
  /\ pc = "start"
  /\ df' = load_sales_data(file)
  /\ pc' = "called"
  /\ ret' = [fn |-> "load_sales_data", out |-> Ok(Nothing)]
  /\ UNCHANGED <<file, results, written, exit_code>>

Callable == pc = "called" /\ df # NoFrame

CallKpis ==
  /\ Callable
  /\ ret' = [fn |-> "calculate_kpis", out |-> calculate_kpis(df)]
  /\ UNCHANGED <<file, df, pc, results, written, exit_code>>

CallRegion ==
  /\ Callable
  /\ \E out \in analyze_by_region(df) : ret' = [fn |-> "analyze_by_region", out |-> out]
  /\ UNCHANGED <<file, df, pc, results, written, exit_code>>

CallCategory ==
  /\ Callable
  /\ \E out \in analyze_by_category(df) : ret' = [fn |-> "analyze_by_category", out |-> out]
  /\ UNCHANGED <<file, df, pc, results, written, exit_code>>

CallTimeSeries ==
  /\ Callable
  /\ ret' = [fn |-> "analyze_time_series", out |-> analyze_time_series(df).out]
  /\ df' = analyze_time_series(df).df
  /\ UNCHANGED <<file, pc, results, written, exit_code>>

CallReps ==
  /\ Callable
  /\ \E out \in analyze_sales_reps(df) : ret' = [fn |-> "analyze_sales_reps", out |-> out]
  /\ UNCHANGED <<file, df, pc, results, written, exit_code>>

CallSummary ==
  /\ Callable
  /\ ret' = [fn |-> "generate_summary_statistics", out |-> generate_summary_statistics(df)]
  /\ UNCHANGED <<file, df, pc, results, written, exit_code>>

CallsNext ==
  CallLoad \/ CallKpis \/ CallRegion \/ CallCategory \/ CallTimeSeries \/ CallReps
    \/ CallSummary

SpecCalls == Init /\ [][CallsNext]_vars

\* ------------------------------------- a processed file of another origin

\* load_sales_data reads whatever CSV is at PROCESSED_DATA_PATH and checks no
\* value of it.  A row as a cleaning step without the positive-value filter
\* would have written it; unit_price is the exact ratio with the sign in
\* the numerator.
ForeignRow(d, amount, units) ==
  [ Derive(RawRow(d, amount, units, "A", "Books", "C1", "Ann", NoNa))
      EXCEPT !.unit_price = IF units < 0 THEN <<0 - amount, 0 - units>>
                            ELSE <<amount, units>> ]

\* Valid rows, and rows of a zero or negative amount or negative units.
ForeignRows ==
  { ForeignRow(d, v[1], v[2]) :
      d \in { <<2024, 1, 3>>, <<2024, 2, 6>> },
      v \in { <<1000, 1>>, <<0, 1>>, <<-1000, 1>>, <<2000, -1>> } }

ForeignFiles ==
  { [exists |-> TRUE, data |-> [columns |-> RawColumns \o DerivedColumns, rows |-> s]] :
      s \in FilesOf(ForeignRows, MaxRows) }

InitForeign ==
  /\ file \in ForeignFiles
  /\ df = NoFrame
  /\ pc = "start"
  /\ results = Nothing
  /\ written = Nothing
  /\ exit_code = 0
  /\ ret = NoCall

SpecForeign == InitForeign /\ [][CallsNext]_vars

\* -------------------------------------------------------- visualizations.py

window == 7

min_periods == 1

\* rolling(window).mean() with the default min_periods: no value before the
\* window is full.
rolling_mean_FullWindowOnly(series, k) ==
  IF k < window THEN <<0, 0>>
  ELSE <<SumSeq(SubSeq(series, k - window + 1, k)), window>>

\* One value of Series.rolling(window, min_periods).mean(): the mean of the
\* last `window` values up to the k-th, as the exact ratio <<sum, count>>;
\* NaN (<<0, 0>>) while fewer than min_periods values are there.
rolling_mean(series, k) ==
  LET lo == IF k - window + 1 < 1 THEN 1 ELSE k - window + 1
      n  == k - lo + 1
  IN  IF n < min_periods THEN <<0, 0>>
      ELSE <<SumSeq(SubSeq(series, lo, k)), n>>

\* df.groupby('date')['sales_amount'].sum().reset_index() with its MA_7.
DailySales(frame) ==
  LET dates == SortDates(Range(Column(frame.rows, "date")))
      daily == [ i \in DOMAIN dates |->
                   agg_sum(SelectSeq(frame.rows, LAMBDA r : r.date = dates[i]),
                           "sales_amount") ]
  IN  [ i \in DOMAIN dates |->
          [ date |-> dates[i], sales_amount |-> daily[i], MA_7 |-> rolling_mean(daily, i) ] ]

\* The daily series: one sale per date, and on the last date perhaps a
\* second one.  The dates leave gaps (the 1st, 3rd, 4th, 6th, 7th, ...).
DailyRaw(amounts, second) ==
  [ i \in DOMAIN amounts |->
      RawRow(<<2024, 1, i + (i \div 2)>>, amounts[i], 1, "A", "Books", "C1", "Ann", NoNa) ]
    \o (IF second /\ amounts # <<>>
        THEN << RawRow(<<2024, 1, Len(amounts) + (Len(amounts) \div 2)>>, 500, 1, "B",
                      "Toys", "C2", "Bob", NoNa) >>
        ELSE <<>>)

\* Daily sums of 10, 20 and 30 dollars.
ExampleDaily == <<1000, 2000, 3000>>

DailyFiles ==
  { DailyRaw(a, s) :
      a \in SeqsUpTo({1000, 2000}, MaxDates) \cup {ExampleDaily}, s \in BOOLEAN }

VizFiles == { [exists |-> TRUE, data |-> f] : f \in UNION { clean_data(raw) : raw \in DailyFiles } }
              \cup { [exists |-> FALSE, data |-> NoFrame] }

VizInit ==
  /\ file \in VizFiles
  /\ df = NoFrame
  /\ pc = "start"
  /\ results = Nothing
  /\ written = Nothing
  /\ exit_code = 0
  /\ ret = NoCall

\* save_all_visualizations(): load_data(), None when the file is missing.
VizLoad ==
  /\ pc = "start"
  /\ df' = load_sales_data(file)
  /\ pc' = IF df' = NoFrame THEN "done" ELSE "plots"
  /\ UNCHANGED <<file, results, written, exit_code, ret>>

\* plot_time_series_advanced(df) and the figure saved from it; the series the
\* figure draws is kept.
PlotTimeSeriesAdvanced ==
  /\ pc = "plots"
  /\ results' = ("daily_sales" :> DailySales(df)) @@ results
  /\ written' = ("time_series_advanced_py_png" :> DailySales(df)) @@ written
  /\ pc' = "done"
  /\ UNCHANGED <<file, df, exit_code, ret>>

VizNext == VizLoad \/ PlotTimeSeriesAdvanced

SpecViz == VizInit /\ [][VizNext]_vars

\* --------------------------------------------------------------- the claims

\* The RecordSet the analyses were given: the rows load_sales_data read.
Records == file.data.rows

RECURSIVE SumOver(_, _)
SumOver(S, v) ==
  IF S = {} THEN 0
  ELSE LET i == CHOOSE x \in S : TRUE IN v[i] + SumOver(S \ {i}, v)

Has(name) == name \in DOMAIN results

\* The calendar periods <<year, month>> of the records a monthly row sums.
PeriodsOf(row) ==
  { <<Records[i].year, Records[i].month_num>> :
      i \in {j \in DOMAIN Records : Records[j].month = row.key} }

PeriodLess(p, q) == p[1] < q[1] \/ (p[1] = q[1] /\ p[2] < q[2])

Earlier(a, b) == \A p \in PeriodsOf(a), q \in PeriodsOf(b) : PeriodLess(p, q)

\* C1: the rows of the monthly rollup are in calendar order of their
\* (year, month) period: of any two rows the one listed first is of the
\* strictly earlier period.
C1_MonthlyChronological ==
  Has("monthly") =>
    \A i, j \in DOMAIN results["monthly"] :
      i < j => Earlier(results["monthly"][i], results["monthly"][j])

\* C2: the first monthly row has no growth value; every later row follows
\* the row of the chronologically preceding month and its growth is the
\* change from that row in percent, rounded to 2 decimals, null when that
\* row's sales are zero.
C2_GrowthFromPrecedingMonth ==
  Has("monthly") =>
    LET m == results["monthly"]
    IN  \A i \in DOMAIN m :
          IF i = 1 THEN m[i].GrowthPct = NaN
          ELSE /\ Earlier(m[i - 1], m[i])
               /\ m[i].GrowthPct =
                    IF m[i - 1].TotalSales = 0 THEN NaN
                    ELSE Num(RoundHalfEven((m[i].TotalSales - m[i - 1].TotalSales) * 10000,
                                           m[i - 1].TotalSales))

\* The records of a day of the week.
RecordsOn(day) == { i \in DOMAIN Records : day_name(Records[i].date) = day }

DaysPresent == SelectSeq(day_order, LAMBDA day : RecordsOn(day) # {})

\* C3: the weekly pattern lists exactly the days that occur in the data,
\* once each, in the order Monday ... Sunday, and each row holds the sum,
\* the mean and the count of the sales of the records of its day.
C3_WeeklyPattern ==
  Has("weekly") =>
    LET w == results["weekly"]
    IN  /\ Len(w) = Len(DaysPresent)
        /\ \A i \in DOMAIN w :
             LET total == SumOver(RecordsOn(w[i].key), Column(Records, "sales_amount"))
                 n     == Cardinality(RecordsOn(w[i].key))
             IN  /\ w[i].key = DaysPresent[i]
                 /\ w[i].TotalSales = total
                 /\ w[i].NumTransactions = n
                 /\ w[i].AvgTransaction = <<total, n>>

\* A weekly pattern of several days whose first row is not the day of the
\* first record, with a day of several records.
C3_Witness ==
  /\ Has("weekly")
  /\ Len(results["weekly"]) >= 2
  /\ results["weekly"][1].key # day_name(Records[1].date)
  /\ \E i \in DOMAIN results["weekly"] : results["weekly"][i].NumTransactions >= 2

RankedTables == {"region_analysis", "category_analysis", "rep_analysis"}

\* C4: every grouped result is ordered by Total Sales descending, and groups
\* of equal Total Sales are in the order of their keys.
C4_TieBreakByKey ==
  \A name \in RankedTables :
    Has(name) =>
      \A i, j \in DOMAIN results[name] :
        i < j =>
          \/ results[name][i].TotalSales > results[name][j].TotalSales
          \/ /\ results[name][i].TotalSales = results[name][j].TotalSales
             /\ StrLess(results[name][i].key, results[name][j].key)

\* The results that carry a share-of-total column.
ShareTables == {"region_analysis", "category_analysis"}

TotalOf(table) == SumOver(DOMAIN table, Column(table, "TotalSales"))

\* Every share is its group's part of the total in percent, rounded to 2
\* decimals.
SharesRounded(table) ==
  \A i \in DOMAIN table :
    table[i].SharePct = Num(RoundHalfEven(table[i].TotalSales * 10000, TotalOf(table)))

\* How far the shares sum from 100.00, in hundredths of a percent.
SharesOff(table) ==
  LET s == SumOver(DOMAIN table, [i \in DOMAIN table |-> table[i].SharePct[2]])
  IN  IF s >= 10000 THEN s - 10000 ELSE 10000 - s

GuardedFunctions ==
  {"calculate_kpis", "analyze_by_region", "analyze_by_category", "analyze_sales_reps"}

\* C6: on a RecordSet of no records the KPI calculator and every grouped
\* analysis fail with EmptyDatasetError.
C6_EmptyRaisesEmptyDatasetError ==
  (ret.fn \in GuardedFunctions /\ Records = <<>>) =>
    /\ ret.out.kind = "raise"
    /\ ret.out.value = "EmptyDatasetError"

\* C7: a representative none of whose records names a customer gets a null
\* Sales per Customer.
C7_ZeroCustomerRepIsNull ==
  Has("rep_analysis") =>
    \A i \in DOMAIN results["rep_analysis"] :
      results["rep_analysis"][i].UniqueCustomers = 0 =>
        results["rep_analysis"][i].SalesPerCustomer = NaN

\* C8: whatever analysis functions have been called, the frame is the
\* RecordSet that was loaded: the same columns, rows and values.
C8_RecordSetUnchanged ==
  (pc = "called" /\ file.exists) =>
    /\ df.columns = file.data.columns
    /\ df.rows = file.data.rows

\* The summed sales of the k-th date of the daily series.
DailySum(k) ==
  SumOver({ i \in DOMAIN Records : Records[i].date = results["daily_sales"][k].date },
          Column(Records, "sales_amount"))

\* C9: the daily series has one row per distinct date, in date order, and
\* its moving average is never null: the k-th value is the mean of the sums
\* of the last min(k, 7) dates; sums of 10, 20, 30 give 10, 15, 20.
C9_MovingAverage ==
  Has("daily_sales") =>
    LET t == results["daily_sales"]
    IN  /\ Len(t) = Cardinality({ Records[i].date : i \in DOMAIN Records })
        /\ \A k \in DOMAIN t : \E i \in DOMAIN Records : Records[i].date = t[k].date
        /\ \A j, k \in DOMAIN t : j < k => DateLess(t[j].date, t[k].date)
        /\ \A k \in DOMAIN t :
             LET n == IF k < 7 THEN k ELSE 7
             IN  t[k].MA_7 = << SumOver((k - n + 1)..k, [j \in DOMAIN t |-> DailySum(j)]), n >>
        /\ [k \in DOMAIN t |-> DailySum(k)] = ExampleDaily =>
             [k \in DOMAIN t |-> t[k].MA_7] = << <<1000, 1>>, <<3000, 2>>, <<6000, 3>> >>

\* A daily series longer than the window, with a date of two records.
C9_Witness ==
  /\ Has("daily_sales")
  /\ Len(results["daily_sales"]) > 7
  /\ Len(Records) > Len(results["daily_sales"])

\* C10: with the input file missing main runs no analysis, writes no table
\* and the process ends with status 1.
C10_MissingFileFails ==
  (pc = "done" /\ ~file.exists) =>
    /\ DOMAIN results = {}
    /\ DOMAIN written = {}
    /\ exit_code = 1

\* The records of a non-positive amount or non-positive units.
InvalidRecords ==
  { i \in DOMAIN Records : Records[i].sales_amount <= 0 \/ Records[i].units_sold <= 0 }

AnalysisFunctions ==
  { "calculate_kpis", "analyze_by_region", "analyze_by_category", "analyze_time_series",
    "analyze_sales_reps", "generate_summary_statistics" }

\* C11: when a record of a non-positive amount or of non-positive units is
\* in the loaded RecordSet, every analysis function fails with
\* InvalidValueError and none returns a result.
C11_InvalidValueSignalled ==
  (ret.fn \in AnalysisFunctions /\ InvalidRecords # {}) =>
    /\ ret.out.kind = "raise"
    /\ ret.out.value = "InvalidValueError"

\* The output table of each of the seven result artifacts, and the result
\* object it is written from.
ArtifactOf ==
  [ kpis_csv |-> "kpis",
    regional_analysis_csv |-> "region_analysis",
    category_analysis_csv |-> "category_analysis",
    rep_analysis_csv |-> "rep_analysis",
    monthly_csv |-> "monthly",
    weekly_csv |-> "weekly",
    correlation_csv |-> "correlation" ]

\* main ended normally, having loaded a file of at least one record.
Succeeded == pc = "done" /\ exit_code = 0 /\ file.exists /\ Records # <<>>

\* C12: a table is written only once its analysis has completed and holds
\* that analysis's result, and after a successful run over a non-empty
\* RecordSet there is one table for each of the seven artifacts.
C12_SevenTablesWritten ==
  /\ \A t \in DOMAIN written :
       /\ t \in DOMAIN ArtifactOf
       /\ Has(ArtifactOf[t])
       /\ written[t] = results[ArtifactOf[t]]
  /\ Succeeded => DOMAIN written = DOMAIN ArtifactOf

====
